---- MODULE Spec2Model ----
(***************************************************************************)
(* Model of scrap_data/dailymed_scaper.py: the retrying HTTP session       *)
(* (get_retry_session), the DailyMedScraper methods fetch_index,           *)
(* filter_records, download_xml and download_batch, and the loop of main.  *)
(*                                                                         *)
(* Strings that the program inspects (titles, keywords) are sequences of   *)
(* characters; identifiers (setid) are only compared and used as file      *)
(* names, so they are atoms.  A response body is a sequence of chunks, the *)
(* first chunk standing for the body's first five bytes.                   *)
(***************************************************************************)
EXTENDS Integers, Sequences, FiniteSets, TLC

\* ------------------------------------------------------------------------
\* Bounds of the model
\* ------------------------------------------------------------------------
MaxRecords == 2   \* entries in the index response's data list
MaxDrugs == 2     \* keywords on the command line
MaxLimit == 2     \* largest --limit
Limits == 0..MaxLimit

\* ------------------------------------------------------------------------
\* Program constants
\* ------------------------------------------------------------------------
RETRIES == 3
BACKOFF_FACTOR_TENTHS == 3          \* 0.3, in tenths of a second
STATUS_FORCELIST == {500, 502, 503, 504}
ALLOWED_METHODS == {"HEAD", "GET", "OPTIONS"}
\* urllib3.util.Retry.RETRY_AFTER_STATUS_CODES, used because the Retry object
\* is built with the default respect_retry_after_header=True
RETRY_AFTER_STATUS_CODES == {413, 429, 503}

\* ------------------------------------------------------------------------
\* Input alphabets
\* ------------------------------------------------------------------------
Ids == {"s1", "s2"}
Keywords == {<<>>, <<"a", "B">>, <<"A">>}
Methods == {"GET", "HEAD", "OPTIONS", "POST"}

XmlBody == <<"<?xml", "<doc/>">>
HtmlBody == <<"<html", "</html>">>
Bodies == {XmlBody, HtmlBody}

Absent == <<"(no file)">>

\* The save directory as earlier runs may have left it
SaveDirs == {[s \in Ids |-> Absent], [s \in Ids |-> IF s = "s1" THEN XmlBody ELSE Absent]}

\* ------------------------------------------------------------------------
\* str.lower and the substring test `a in b`
\* ------------------------------------------------------------------------
lower_char(c) == CASE c = "A" -> "a" [] c = "B" -> "b" [] OTHER -> c

lower(s) == [k \in 1..Len(s) |-> lower_char(s[k])]

str_in(sub, s) ==
  \E off \in 0..(Len(s) - Len(sub)) : SubSeq(s, off + 1, off + Len(sub)) = sub

\* ------------------------------------------------------------------------
\* SPLRecord and the JSON of the index endpoint
\* ------------------------------------------------------------------------
\* A JSON object's key is missing, holds a string, or holds something else.
Missing == [k |-> "missing", v |-> <<>>]
NonStr == [k |-> "other", v |-> <<>>]
Str(v) == [k |-> "str", v |-> v]

\* A model that also wants the title to be non-empty
SPLRecord_valid_titled(entry) ==
  entry.setid.k = "str" /\ entry.title.k = "str" /\ entry.title.v # <<>>

\* pydantic: every declared field is required and must be a string; keys
\* the model does not declare (such as `id`) are ignored.
SPLRecord_valid(entry) == entry.setid.k = "str" /\ entry.title.k = "str"

SPLRecord(entry) == [setid |-> entry.setid.v, title |-> entry.title.v]

\* What the index endpoint may list: well-formed entries, an entry keyed by
\* `id` instead of `setid`, and entries with a missing or a non-string title.
GoodEntries ==
  {[setid |-> Str("s1"), id |-> Missing, title |-> Str(<<"A", "b">>)],
   [setid |-> Str("s2"), id |-> Missing, title |-> Str(<<"B", "a">>)],
   [setid |-> Str("s2"), id |-> Missing, title |-> Str(<<>>)]}

Entries ==
  GoodEntries
  \cup {[setid |-> Missing, id |-> Str("s1"), title |-> Str(<<"A", "b">>)],
        [setid |-> Str("s2"), id |-> Missing, title |-> Missing],
        [setid |-> Str("s2"), id |-> Missing, title |-> NonStr]}

SeqsUpTo(S, n) == UNION {[1..k -> S] : k \in 0..n}

\* The parsed body: not JSON at all, an object without "data", or an object
\* whose "data" is a list of entries.
NotJson == [json |-> FALSE, has_data |-> FALSE, data |-> <<>>]
NoData == [json |-> TRUE, has_data |-> FALSE, data |-> <<>>]
JsonData(d) == [json |-> TRUE, has_data |-> TRUE, data |-> d]

IndexBodies == {NotJson, NoData} \cup {JsonData(d) : d \in SeqsUpTo(Entries, MaxRecords)}

\* ------------------------------------------------------------------------
\* The retrying session (requests.Session + HTTPAdapter(max_retries=Retry))
\* ------------------------------------------------------------------------
\* What one attempt on the wire ends in: a response (its status and whether
\* it carries a Retry-After header), a connection error, or a read error
\* (a read timeout included).
WireStatus(status, retry_after) ==
  [kind |-> "status", status |-> status, retry_after |-> retry_after]
ConnectError == [kind |-> "connect_error", status |-> 0, retry_after |-> FALSE]
ReadError == [kind |-> "read_error", status |-> 0, retry_after |-> FALSE]

WireOutcomes ==
  {WireStatus(200, FALSE), WireStatus(404, FALSE), WireStatus(429, FALSE),
   WireStatus(429, TRUE), WireStatus(500, FALSE), WireStatus(503, FALSE),
   ConnectError, ReadError}

\* The server's behaviour over the attempts of one request.  One attempt
\* more than the policy allows, so that an attempt too many would show.
ScriptLen == RETRIES + 2
Scripts == [1..ScriptLen -> WireOutcomes]

\* A get_retry_session that builds the policy from the arguments it is given
get_retry_session_as_passed(retries, backoff_factor, status_forcelist) ==
  [total |-> retries, read |-> retries, connect |-> retries,
   backoff_factor |-> backoff_factor,
   status_forcelist |-> status_forcelist,
   allowed_methods |-> ALLOWED_METHODS]

\* get_retry_session: the arguments are overwritten by the module constants
\* before the Retry object is built.
get_retry_session(retries, backoff_factor, status_forcelist) ==
  LET retries_ == RETRIES
      backoff_factor_ == BACKOFF_FACTOR_TENTHS
      status_forcelist_ == STATUS_FORCELIST
  IN [total |-> retries_, read |-> retries_, connect |-> retries_,
      backoff_factor |-> backoff_factor_,
      status_forcelist |-> status_forcelist_,
      allowed_methods |-> ALLOWED_METHODS]

\* DailyMedScraper.__init__: the one session of the scraper
scraper_session == get_retry_session(RETRIES, BACKOFF_FACTOR_TENTHS, STATUS_FORCELIST)

\* A policy that retries whatever the method
is_method_retryable_any(retry, method) == TRUE

\* Retry._is_method_retryable
is_method_retryable(retry, method) == method \in retry.allowed_methods

\* Retry.is_retry: is a response with this status to be retried?
is_retry(retry, method, status, has_retry_after) ==
  IF ~is_method_retryable(retry, method) THEN FALSE
  ELSE IF status \in retry.status_forcelist THEN TRUE
  ELSE retry.total # 0 /\ has_retry_after /\ status \in RETRY_AFTER_STATUS_CODES

\* A budget that runs out one attempt early
is_exhausted_early(retry) == retry.total <= 0 \/ retry.connect < 0 \/ retry.read < 0

\* Retry.is_exhausted
is_exhausted(retry) == retry.total < 0 \/ retry.connect < 0 \/ retry.read < 0

\* Retry.increment: the counters after one more failed attempt
increment(retry, outcome) ==
  LET t == [retry EXCEPT !.total = @ - 1]
  IN CASE outcome.kind = "connect_error" -> [t EXCEPT !.connect = @ - 1]
       [] outcome.kind = "read_error" -> [t EXCEPT !.read = @ - 1]
       [] OTHER -> t

Returned(status, retry_after, attempts) ==
  [kind |-> "response", status |-> status, retry_after |-> retry_after,
   exc |-> "none", attempts |-> attempts]

Raises(exc, attempts) ==
  [kind |-> "exception", status |-> 0, retry_after |-> FALSE,
   exc |-> exc, attempts |-> attempts]

\* HTTPConnectionPool.urlopen as driven by HTTPAdapter.send: attempt number n
\* of a request meets script[n]; a retried attempt calls urlopen again with
\* the incremented Retry object.  The result is the response handed to the
\* caller or the requests exception raised to it.
RECURSIVE urlopen(_, _, _, _)
urlopen(retry, method, script, n) ==
  IF n > Len(script) THEN Raises("NoAnswer", n - 1)
  ELSE
    LET o == script[n]
        next == increment(retry, o)
    IN CASE o.kind = "status" ->
              IF is_retry(retry, method, o.status, o.retry_after)
              THEN IF is_exhausted(next)
                   THEN Raises("RetryError", n)
                   ELSE urlopen(next, method, script, n + 1)
              ELSE Returned(o.status, o.retry_after, n)
         [] o.kind = "connect_error" ->
              IF is_exhausted(next)
              THEN Raises("ConnectionError", n)
              ELSE urlopen(next, method, script, n + 1)
         [] OTHER ->
              IF ~is_method_retryable(retry, method)
              THEN Raises("ReadTimeout", n)
              ELSE IF is_exhausted(next)
                   THEN Raises("ConnectionError", n)
                   ELSE urlopen(next, method, script, n + 1)

\* Session.request(method, url) against a server following `script`
session_request(sess, method, script) == urlopen(sess, method, script, 1)

\* Every way session.get can end
GetResults == {session_request(scraper_session, "GET", s) : s \in Scripts}

\* ------------------------------------------------------------------------
\* State
\* ------------------------------------------------------------------------
VARIABLES
  pc,          \* where main stands
  err,         \* the exception that ended the run, or "none"
  limit,       \* args.limit
  files,       \* save_dir: setid |-> content of <setid>.xml, or Absent
  files0,      \* save_dir as the run found it
  records,     \* scraper.records
  index_resp,  \* what the index request ended in (fetch_index's resp)
  di,          \* number of keywords of drug_list reached so far
  drug_name,   \* main's loop variable
  matched,     \* filter_records' result, the `records` of download_batch
  batch,       \* the sequence download_batch iterates
  i,           \* position of the loop in batch
  count,       \* download_batch's count
  reported,    \* the counts download_batch has printed in this call
  req,         \* the document request in flight or last made
  resp,        \* what it ended in (download_xml's resp), until the call returns
  success,     \* download_batch's success
  session,     \* scraper.session: the retry policy its adapter carries
  sent_with,   \* the policy of the session the last request was sent through
  files_pre,   \* save_dir as it was when the download_xml call began
  unslept,     \* document requests sent in this run less sleeps taken
  rstate,      \* where each record of batch stands in this call
  s_method,    \* a request made directly through the session: its method,
  s_script,    \*   the server's behaviour over its attempts,
  s_result     \*   and what the caller gets

main_vars == <<pc, err, limit, files, files0, records, index_resp, di, drug_name,
               matched, batch, i, count, reported, req, resp, success,
               session, sent_with, files_pre, unslept, rstate>>
session_vars == <<s_method, s_script, s_result>>
vars == <<main_vars, session_vars>>

\* No request has been sent yet
NoPolicy ==
  [total |-> 0, read |-> 0, connect |-> 0, backoff_factor |-> 0,
   status_forcelist |-> {}, allowed_methods |-> {}]

NoRequest == [method |-> "none", url |-> "none", setid |-> "none"]
DocRequest(setid) == [method |-> "GET", url |-> "doc", setid |-> setid]

NoResult ==
  [kind |-> "none", status |-> 0, retry_after |-> FALSE, exc |-> "none",
   attempts |-> 0]

\* A result of the session together with the body the server sent
WithBody(g, content, js) ==
  [kind |-> g.kind, status |-> g.status, retry_after |-> g.retry_after,
   exc |-> g.exc, content |-> content, js |-> js]

NoResponse == WithBody(NoResult, <<>>, NotJson)

\* ------------------------------------------------------------------------
\* DailyMedScraper
\* ------------------------------------------------------------------------
\* An index fetcher that keeps the entries it can build and drops the rest
entry_ok(entry) == entry.setid.k = "str" /\ entry.title.k = "str"

RECURSIVE valid_entries(_, _)
valid_entries(data, k) ==
  IF k > Len(data) THEN <<>>
  ELSE IF entry_ok(data[k])
       THEN <<[setid |-> data[k].setid.v, title |-> data[k].title.v]>>
            \o valid_entries(data, k + 1)
       ELSE valid_entries(data, k + 1)

fetch_index_lenient(old_records, r) ==
  IF r.kind = "exception" THEN [records |-> old_records, raised |-> r.exc]
  ELSE IF r.status >= 400 THEN [records |-> old_records, raised |-> "HTTPError"]
  ELSE IF ~r.js.json THEN [records |-> old_records, raised |-> "JSONDecodeError"]
  ELSE [records |-> valid_entries(r.js.data, 1), raised |-> "none"]

\* fetch_index after the GET: raise_for_status, json(), the "data" test and
\* one SPLRecord per entry.  The list is assigned only when every entry was
\* built.
fetch_index(old_records, r) ==
  IF r.kind = "exception" THEN [records |-> old_records, raised |-> r.exc]
  ELSE IF r.status >= 400 THEN [records |-> old_records, raised |-> "HTTPError"]
  ELSE IF ~r.js.json THEN [records |-> old_records, raised |-> "JSONDecodeError"]
  ELSE IF ~r.js.has_data THEN [records |-> old_records, raised |-> "ValueError"]
  ELSE IF \E k \in 1..Len(r.js.data) : ~SPLRecord_valid(r.js.data[k])
       THEN [records |-> old_records, raised |-> "ValidationError"]
  ELSE [records |-> [k \in 1..Len(r.js.data) |-> SPLRecord(r.js.data[k])],
        raised |-> "none"]

\* A test that forgets to lower the keyword
title_matches_keyword_as_typed(keyword, title) == str_in(keyword, lower(title))

\* A test that takes the empty keyword to match nothing
title_matches_nonempty(keyword, title) ==
  keyword # <<>> /\ str_in(lower(keyword), lower(title))

\* keyword.lower() in rec.title.lower()
title_matches(keyword, title) == str_in(lower(keyword), lower(title))

\* filter_records: the list comprehension over self.records
RECURSIVE filter_from(_, _, _)
filter_from(recs, keyword, k) ==
  IF k > Len(recs) THEN <<>>
  ELSE IF title_matches(keyword, recs[k].title)
       THEN <<recs[k]>> \o filter_from(recs, keyword, k + 1)
       ELSE filter_from(recs, keyword, k + 1)

filter_records(recs, keyword) == filter_from(recs, keyword, 1)

\* A test that never finds the file
path_exists_never(fs, setid) == FALSE

\* os.path.exists(os.path.join(save_dir, f"{setid}.xml"))
path_exists(fs, setid) == fs[setid] # Absent

\* What the filesystem does to open(path, "wb") and f.write(content):
\* both succeed, open fails, or the write fails after open created or
\* truncated the file, leaving the first `kept` chunks.
FsOk == [kind |-> "ok", kept |-> 0]
FsOpenError == [kind |-> "open_error", kept |-> 0]
FsWriteError(kept) == [kind |-> "write_error", kept |-> kept]
FsOutcomes(content) ==
  {FsOk, FsOpenError} \cup {FsWriteError(k) : k \in 0..(Len(content) - 1)}

\* A downloader that reports a file it could not finish writing as saved
download_xml_partial_saved(fs, record, r, fsys) ==
  IF r.kind = "exception" THEN [files |-> fs, ret |-> FALSE, raised |-> "none"]
  ELSE IF r.status = 200
       THEN CASE fsys.kind = "ok" ->
                   [files |-> [fs EXCEPT ![record.setid] = r.content],
                    ret |-> TRUE, raised |-> "none"]
              [] fsys.kind = "open_error" ->
                   [files |-> fs, ret |-> FALSE, raised |-> "none"]
              [] OTHER ->
                   [files |-> [fs EXCEPT ![record.setid] = SubSeq(r.content, 1, fsys.kept)],
                    ret |-> TRUE, raised |-> "none"]
       ELSE [files |-> fs, ret |-> FALSE, raised |-> "none"]

\* A downloader without the try/except: what the GET or the file raises
\* leaves download_xml
download_xml_uncaught(fs, record, r, fsys) ==
  IF r.kind = "exception" THEN [files |-> fs, ret |-> FALSE, raised |-> r.exc]
  ELSE IF r.status = 200
       THEN CASE fsys.kind = "ok" ->
                   [files |-> [fs EXCEPT ![record.setid] = r.content],
                    ret |-> TRUE, raised |-> "none"]
              [] fsys.kind = "open_error" ->
                   [files |-> fs, ret |-> FALSE, raised |-> "OSError"]
              [] OTHER ->
                   [files |-> [fs EXCEPT ![record.setid] = SubSeq(r.content, 1, fsys.kept)],
                    ret |-> FALSE, raised |-> "OSError"]
       ELSE [files |-> fs, ret |-> FALSE, raised |-> "none"]

\* download_xml after the GET: on 200 the body is written whatever it holds;
\* every exception is caught and turned into False.
download_xml(fs, record, r, fsys) ==
  IF r.kind = "exception" THEN [files |-> fs, ret |-> FALSE, raised |-> "none"]
  ELSE IF r.status = 200
       THEN CASE fsys.kind = "ok" ->
                   [files |-> [fs EXCEPT ![record.setid] = r.content],
                    ret |-> TRUE, raised |-> "none"]
              [] fsys.kind = "open_error" ->
                   [files |-> fs, ret |-> FALSE, raised |-> "none"]
              [] OTHER ->
                   [files |-> [fs EXCEPT ![record.setid] = SubSeq(r.content, 1, fsys.kept)],
                    ret |-> FALSE, raised |-> "none"]
       ELSE [files |-> fs, ret |-> FALSE, raised |-> "none"]

\* recs[:n] of Python
py_slice_to(recs, n) ==
  IF n >= 0
  THEN SubSeq(recs, 1, IF n < Len(recs) THEN n ELSE Len(recs))
  ELSE SubSeq(recs, 1, IF Len(recs) + n > 0 THEN Len(recs) + n ELSE 0)

\* records[:limit] if limit else records
batch_records(recs, lim) == IF lim # 0 THEN py_slice_to(recs, lim) ELSE recs

\* ------------------------------------------------------------------------
\* What the two endpoints can make session.get end in
\* ------------------------------------------------------------------------
\* The bodies a result of the session may come with: the index endpoint
\* answers 200 with any of IndexBodies and an error status with or without
\* JSON; the document endpoint answers 200 with any of Bodies and an error
\* status with an HTML page.  An exception carries no body.
IndexBodiesOf(g) ==
  IF g.kind # "response" THEN {NotJson}
  ELSE IF g.status = 200 THEN IndexBodies
  ELSE {NotJson,
        JsonData(<<[setid |-> Str("s1"), id |-> Missing, title |-> Str(<<"A", "b">>)]>>)}

DocBodiesOf(g) ==
  IF g.kind # "response" THEN {<<>>}
  ELSE IF g.status = 200 THEN Bodies
  ELSE {HtmlBody}

IndexResponses ==
  UNION {{WithBody(g, <<>>, js) : js \in IndexBodiesOf(g)} : g \in GetResults}

DocResponses ==
  UNION {{WithBody(g, c, NotJson) : c \in DocBodiesOf(g)} : g \in GetResults}

\* session.get through the session `sess`; the scraper's own session has
\* the results worked out above.
GetResultsOf(sess) ==
  IF sess = scraper_session THEN GetResults
  ELSE {session_request(sess, "GET", s) : s \in Scripts}

IndexResponsesOf(sess) ==
  IF sess = scraper_session THEN IndexResponses
  ELSE UNION {{WithBody(g, <<>>, js) : js \in IndexBodiesOf(g)} : g \in GetResultsOf(sess)}

DocResponsesOf(sess) ==
  IF sess = scraper_session THEN DocResponses
  ELSE UNION {{WithBody(g, c, NotJson) : c \in DocBodiesOf(g)} : g \in GetResultsOf(sess)}

\* ------------------------------------------------------------------------
\* main
\* ------------------------------------------------------------------------
\* The state once main has built the scraper: an empty record list, the
\* save directory as it was left by earlier runs.
Init ==
  /\ pc = "fetch_index"
  /\ err = "none"
  /\ limit \in Limits
  /\ files0 \in SaveDirs
  /\ files = files0
  /\ records = <<>>
  /\ index_resp = NoResponse
  /\ di = 0
  /\ drug_name = <<>>
  /\ matched = <<>>
  /\ batch = <<>>
  /\ i = 0
  /\ count = 0
  /\ reported = <<>>
  /\ req = NoRequest
  /\ resp = NoResponse
  /\ success = FALSE
  /\ session = scraper_session
  /\ sent_with = NoPolicy
  /\ files_pre = files0
  /\ unslept = 0
  /\ rstate = <<>>
  /\ s_method = "none"
  /\ s_script = <<>>
  /\ s_result = NoResult

\* scraper.fetch_index(): an exception ends main
FetchIndex ==
  /\ pc = "fetch_index"
  /\ \E r \in IndexResponsesOf(session) :
       LET res == fetch_index(records, r)
       IN /\ index_resp' = r
          /\ records' = res.records
          /\ err' = res.raised
          /\ pc' = IF res.raised = "none" THEN "main_loop" ELSE "crashed"
  /\ sent_with' = session
  /\ UNCHANGED <<limit, files, files0, di, drug_name, matched, batch, i, count,
                 reported, req, resp, success, session_vars,
                 session, files_pre, unslept, rstate>>

\* for drug_name in drug_list: records = scraper.filter_records(drug_name).
\* The keywords of drug_list are drawn as the loop reaches them; the list is
\* read nowhere else.
MainNextDrug ==
  /\ pc = "main_loop"
  /\ di < MaxDrugs
  /\ \E k \in Keywords :
       /\ drug_name' = k
       /\ matched' = filter_records(records, k)
  /\ di' = di + 1
  /\ pc' = "download_batch"
  /\ rstate' = <<>>
  /\ UNCHANGED <<err, limit, files, files0, records, index_resp, batch, i, count,
                 reported, req, resp, success, session_vars,
                 session, sent_with, files_pre, unslept>>

\* drug_list (never empty) is exhausted
MainDone ==
  /\ pc = "main_loop"
  /\ di >= 1
  /\ pc' = "done"
  /\ UNCHANGED <<err, limit, files, files0, records, index_resp, di, drug_name,
                 matched, batch, i, count, reported, req, resp, success,
                 session_vars,
                 session, sent_with, files_pre, unslept, rstate>>

\* scraper.download_batch(records, limit=args.limit): count = 0 and the
\* sequence to iterate
DownloadBatchStart ==
  /\ pc = "download_batch"
  /\ batch' = batch_records(matched, limit)
  /\ count' = 0
  /\ i' = 1
  /\ reported' = <<>>
  /\ success' = FALSE
  /\ pc' = "batch_loop"
  /\ rstate' = [k \in 1..Len(batch') |-> "Pending"]
  /\ UNCHANGED <<err, limit, files, files0, records, index_resp, di, drug_name,
                 matched, req, resp, session_vars,
                 session, sent_with, files_pre, unslept>>

\* The record's file exists: nothing is done for it
BatchSkip ==
  /\ pc = "batch_loop"
  /\ i <= Len(batch)
  /\ path_exists(files, batch[i].setid)
  /\ i' = i + 1
  /\ rstate' = [rstate EXCEPT ![i] = "Skipped"]
  /\ UNCHANGED <<pc, err, limit, files, files0, records, index_resp, di, drug_name,
                 matched, batch, count, reported, req, resp, success, session_vars,
                 session, sent_with, files_pre, unslept>>

\* The record's file is missing: download_xml sends its GET
BatchRequest ==
  /\ pc = "batch_loop"
  /\ i <= Len(batch)
  /\ ~path_exists(files, batch[i].setid)
  /\ req' = DocRequest(batch[i].setid)
  /\ resp' = NoResponse
  /\ pc' = "requested"
  /\ sent_with' = session
  /\ unslept' = unslept + 1
  /\ rstate' = [rstate EXCEPT ![i] = "Requested"]
  /\ UNCHANGED <<err, limit, files, files0, records, index_resp, di, drug_name,
                 matched, batch, i, count, reported, success, session_vars,
                 session, files_pre>>

\* The GET ends, download_xml handles what it ended in and returns
DownloadXmlReturn ==
  /\ pc = "requested"
  /\ \E r \in DocResponsesOf(session) :
       \E fsys \in FsOutcomes(r.content) :
         LET res == download_xml(files, batch[i], r, fsys)
         IN /\ resp' = r
            /\ files' = res.files
            /\ success' = res.ret
            /\ rstate' = [rstate EXCEPT ![i] = IF res.ret THEN "Saved" ELSE "Failed"]
            /\ err' = res.raised
            /\ pc' = IF res.raised = "none" THEN "downloaded" ELSE "crashed"
  /\ UNCHANGED <<limit, files0, records, index_resp, di, drug_name, matched,
                 batch, i, count, reported, req, session_vars,
                 session, sent_with, files_pre, unslept>>

\* A loop that sleeps only after a download that succeeded
BatchTally_sleep_on_success ==
  /\ pc = "downloaded"
  /\ count' = IF success THEN count + 1 ELSE count
  /\ req' = NoRequest
  /\ resp' = NoResponse
  /\ pc' = IF success THEN "sleep" ELSE "batch_loop"
  /\ i' = IF success THEN i ELSE i + 1
  /\ files_pre' = files
  /\ UNCHANGED <<err, limit, files, files0, records, index_resp, di, drug_name,
                 matched, batch, reported, success, session_vars,
                 session, sent_with, unslept, rstate>>

\* if success: count += 1
BatchTally ==
  /\ pc = "downloaded"
  /\ count' = IF success THEN count + 1 ELSE count
  /\ req' = NoRequest
  /\ resp' = NoResponse
  /\ pc' = "sleep"
  /\ files_pre' = files
  /\ UNCHANGED <<err, limit, files, files0, records, index_resp, di, drug_name,
                 matched, batch, i, reported, success, session_vars,
                 session, sent_with, unslept, rstate>>

\* A loop that starts over from the first record after a download that failed
BatchSleep_rewind_on_failure ==
  /\ pc = "sleep"
  /\ i' = IF success THEN i + 1 ELSE 1
  /\ pc' = "batch_loop"
  /\ unslept' = unslept - 1
  /\ UNCHANGED <<err, limit, files, files0, records, index_resp, di, drug_name,
                 matched, batch, count, reported, req, resp, success, session_vars,
                 session, sent_with, files_pre, rstate>>

\* A loop that stays on a record whose download failed and tries it again
BatchSleep_retry_failed ==
  /\ pc = "sleep"
  /\ i' = IF success THEN i + 1 ELSE i
  /\ pc' = "batch_loop"
  /\ unslept' = unslept - 1
  /\ UNCHANGED <<err, limit, files, files0, records, index_resp, di, drug_name,
                 matched, batch, count, reported, req, resp, success, session_vars,
                 session, sent_with, files_pre, rstate>>

\* time.sleep(delay), then the next record
BatchSleep ==
  /\ pc = "sleep"
  /\ i' = i + 1
  /\ pc' = "batch_loop"
  /\ unslept' = unslept - 1
  /\ UNCHANGED <<err, limit, files, files0, records, index_resp, di, drug_name,
                 matched, batch, count, reported, req, resp, success, session_vars,
                 session, sent_with, files_pre, rstate>>

\* The sequence is exhausted: print the count and return to main
BatchReport ==
  /\ pc = "batch_loop"
  /\ i > Len(batch)
  /\ reported' = Append(reported, count)
  /\ pc' = "main_loop"
  /\ UNCHANGED <<err, limit, files, files0, records, index_resp, di, drug_name,
                 matched, batch, i, count, req, resp, success, session_vars,
                 session, sent_with, files_pre, unslept, rstate>>

Next ==
  \/ FetchIndex
  \/ MainNextDrug
  \/ MainDone
  \/ DownloadBatchStart
  \/ BatchSkip
  \/ BatchRequest
  \/ DownloadXmlReturn
  \/ BatchTally
  \/ BatchSleep
  \/ BatchReport

Spec == Init /\ [][Next]_vars

\* The program is one thread that runs until it returns or crashes: every
\* GET ends (bounded retries, timeouts), every sleep ends, so a step that
\* can be taken is taken.
SpecLive == Spec /\ WF_vars(Next)

\* ------------------------------------------------------------------------
\* A request made directly through the session, with any method
\* ------------------------------------------------------------------------
InitSession ==
  /\ pc = "session"
  /\ err = "none"
  /\ limit = 0
  /\ files0 = [s \in Ids |-> Absent]
  /\ files = files0
  /\ records = <<>>
  /\ index_resp = NoResponse
  /\ di = 0
  /\ drug_name = <<>>
  /\ matched = <<>>
  /\ batch = <<>>
  /\ i = 0
  /\ count = 0
  /\ reported = <<>>
  /\ req = NoRequest
  /\ resp = NoResponse
  /\ success = FALSE
  /\ session = scraper_session
  /\ sent_with = NoPolicy
  /\ files_pre = files0
  /\ unslept = 0
  /\ rstate = <<>>
  /\ s_method \in Methods
  /\ s_script \in Scripts
  /\ s_result = NoResult

SessionRequest ==
  /\ pc = "session"
  /\ s_result' = session_request(session, s_method, s_script)
  /\ pc' = "session_done"
  /\ UNCHANGED <<err, limit, files, files0, records, index_resp, di, drug_name,
                 matched, batch, i, count, reported, req, resp, success,
                 s_method, s_script,
                 session, sent_with, files_pre, unslept, rstate>>

NextSession == SessionRequest

SpecSession == InitSession /\ [][NextSession]_vars

\* ------------------------------------------------------------------------
\* Properties
\* ------------------------------------------------------------------------
\* The body begins with the XML declaration prefix
StartsWithXml(content) == Len(content) >= 1 /\ content[1] = "<?xml"

\* download_xml has returned for batch[i], whose file did not exist when the
\* request was sent
Downloaded == pc = "downloaded"
Target == batch[i].setid

\* C1: download_xml writes <setid>.xml only if the response is a 200 whose
\* body begins with "<?xml": in every other case (another status, a 200 with
\* another body, an error, a timeout) no file is written and the result is
\* false.
C1_WritesOnlyXml200 ==
  Downloaded =>
    LET xml200 == /\ resp.kind = "response"
                  /\ resp.status = 200
                  /\ StartsWithXml(resp.content)
    IN ~xml200 => (files[Target] = Absent /\ success = FALSE)

\* C2: while a document request is in flight it is the request for the
\* record the loop stands at, and that record's file does not exist: no
\* request is ever sent for a record whose file exists when it is reached.
C2_NoRequestForExistingFile ==
  pc = "requested" =>
    /\ req = DocRequest(Target)
    /\ files[Target] = Absent

\* C2's case: the loop of a second batch has passed, without a download, a
\* record whose file an earlier batch of this run wrote.
C2_Witness ==
  /\ pc = "batch_loop"
  /\ di = 2
  /\ i = 2
  /\ count = 0
  /\ files0[batch[1].setid] = Absent
  /\ files[batch[1].setid] \in Bodies

\* The download of batch[i] failed: the request raised, the status was not
\* 200, or the file does not hold the body.
DownloadFailed ==
  \/ resp.kind = "exception"
  \/ resp.status # 200
  \/ files[Target] # resp.content

\* C3: a failed download makes download_xml return false, never ends the
\* run, and leaves the loop going: the run ends in an exception only when
\* fetch_index raised, and a batch that has returned has passed every
\* record of its sequence.
C3_DownloadFailureNotFatal ==
  /\ (Downloaded /\ DownloadFailed) => (success = FALSE /\ err = "none")
  /\ (pc = "crashed" \/ err # "none") => (di = 0 /\ req = NoRequest)
  /\ (pc \in {"main_loop", "done"} /\ di >= 1) =>
       (i = Len(batch) + 1 /\ reported = <<count>>)

\* C3's case: the first record's download failed and left no file, and the
\* loop has gone on to request the second record.
C3_Witness ==
  /\ pc = "requested"
  /\ i = 2
  /\ batch[1].setid # batch[2].setid
  /\ files[batch[1].setid] = Absent

\* C4: with limit = L >= 0 the batch examines only records among the first
\* L of the list, and the count is at most L.
C4_LimitBoundsBatch ==
  (limit >= 0 /\ di >= 1 /\ pc # "download_batch") =>
    /\ Len(batch) <= limit
    /\ batch = SubSeq(matched, 1, Len(batch))
    /\ count <= limit
    /\ \A k \in 1..Len(reported) : reported[k] <= limit

\* Two characters are the same letter, whatever their case
SameLetter(c, d) == c = d \/ {c, d} = {"A", "a"} \/ {c, d} = {"B", "b"}

\* The keyword occurs in the title at some offset, letter for letter
OccursIgnoringCase(keyword, title) ==
  \E off \in 0..(Len(title) - Len(keyword)) :
    \A k \in 1..Len(keyword) : SameLetter(title[off + k], keyword[k])

\* The positions of the stored list whose title holds the keyword, and the
\* j-th of them
Hits(keyword) == {k \in 1..Len(records) : OccursIgnoringCase(keyword, records[k].title)}
NthHit(keyword, j) ==
  CHOOSE h \in Hits(keyword) : Cardinality({x \in Hits(keyword) : x <= h}) = j

\* filter_records(drug_name) has returned `matched`
Filtered == di >= 1

\* C7: filter_records returns exactly the stored records whose title holds
\* the keyword, case ignored, in the order of the stored list; the call
\* changes neither the stored list nor the save directory and sends nothing.
C7_FilterIsCaseInsensitiveSubsequence ==
  /\ [](Filtered =>
         /\ Len(matched) = Cardinality(Hits(drug_name))
         /\ \A j \in 1..Len(matched) : matched[j] = records[NthHit(drug_name, j)])
  /\ [][(pc = "main_loop" /\ pc' = "download_batch") =>
          (records' = records /\ files' = files /\ req' = req)]_vars

\* C7's case: of two stored records the filter kept the second only, whose
\* title holds the keyword in another case.
C7_Witness ==
  /\ pc = "download_batch"
  /\ drug_name = <<"a", "B">>
  /\ Len(records) = 2
  /\ matched = <<records[2]>>
  /\ records[2].title = <<"A", "b">>

\* C8: with the empty keyword filter_records returns the whole stored list,
\* records with an empty title included, in the same order.
C8_EmptyKeywordKeepsAll ==
  (Filtered /\ drug_name = <<>>) => matched = records

\* C8's case: the empty keyword over a list that holds a record with an
\* empty title and another one.
C8_Witness ==
  /\ pc = "download_batch"
  /\ drug_name = <<>>
  /\ Len(records) = 2
  /\ records[1].title = <<>>
  /\ records[2].title # <<>>
  /\ Len(matched) = 2

\* fetch_index has returned or raised
IndexFetched == pc # "fetch_index"

\* The index request was answered, with a JSON body that has a "data" list
IndexHasData ==
  index_resp.kind = "response" /\ index_resp.js.json /\ index_resp.js.has_data
IndexData == index_resp.js.data

\* C9 as claimed: when every entry of the data list carries a string `id`
\* and a string `title`, fetch_index succeeds and stores one record per
\* entry, in the server's order, identified by the entry's `id`.
C9_RecordPerEntryById ==
  (/\ IndexFetched
   /\ IndexHasData
   /\ \A k \in 1..Len(IndexData) :
        IndexData[k].id.k = "str" /\ IndexData[k].title.k = "str") =>
    /\ err = "none"
    /\ Len(records) = Len(IndexData)
    /\ \A k \in 1..Len(IndexData) : records[k].setid = IndexData[k].id.v

\* C9 amended: when the index request is answered with a status below 400
\* and every entry of the data list carries a string `setid` and a string
\* `title`, fetch_index succeeds and stores one record per entry, in the
\* server's order, with the entry's `setid` and `title`.
C9_RecordPerEntryBySetid ==
  (/\ IndexFetched
   /\ IndexHasData
   /\ index_resp.status < 400
   /\ \A k \in 1..Len(IndexData) :
        IndexData[k].setid.k = "str" /\ IndexData[k].title.k = "str") =>
    /\ err = "none"
    /\ pc # "crashed"
    /\ Len(records) = Len(IndexData)
    /\ \A k \in 1..Len(IndexData) :
         /\ records[k].setid = IndexData[k].setid.v
         /\ records[k].title = IndexData[k].title.v

\* C9's case: an index of two entries with different setids was stored.
C9_Witness ==
  /\ pc = "main_loop"
  /\ di = 0
  /\ Len(IndexData) = 2
  /\ Len(records) = 2
  /\ records[1].setid # records[2].setid

\* C10: when the index answer has no "data" list, or an entry of it lacks a
\* string setid or a string title, fetch_index raises, the stored list is
\* what it was before the call (empty), and the run ends there: no keyword
\* is reached, no document request is sent and the save directory is as the
\* run found it.
C10_MalformedIndexIsFatal ==
  (/\ IndexFetched
   /\ index_resp.kind = "response"
   /\ \/ ~IndexHasData
      \/ \E k \in 1..Len(IndexData) :
           IndexData[k].setid.k # "str" \/ IndexData[k].title.k # "str") =>
    /\ pc = "crashed"
    /\ err # "none"
    /\ records = <<>>
    /\ di = 0
    /\ req = NoRequest
    /\ files = files0

\* C10's case: the first entry is well formed and the second is not, and
\* the run ended with an empty list.
C10_Witness ==
  /\ pc = "crashed"
  /\ err = "ValidationError"
  /\ Len(IndexData) = 2
  /\ IndexData[1].setid.k = "str" /\ IndexData[1].title.k = "str"
  /\ IndexData[2].title.k # "str"
  /\ records = <<>>

\* ------------------------------------------------------------------------
\* Properties of the retrying session
\* ------------------------------------------------------------------------
SessionDone == pc = "session_done"

\* The attempt met a response whose status is in the transient set
Transient(o) == o.kind = "status" /\ o.status \in {500, 502, 503, 504}

\* The attempts that were retried: all but the last one made
RetriedAttempts == 1..(s_result.attempts - 1)

\* C5: a GET is attempted at most RETRIES + 1 times, so a transient status is
\* retried at most RETRIES times; transient statuses on the first RETRIES
\* attempts followed by a 200 give the caller that 200; a transient status on
\* every allowed attempt raises to the caller.
C5_RetryBudget ==
  (SessionDone /\ s_method = "GET") =>
    /\ s_result.attempts <= RETRIES + 1
    /\ Cardinality({k \in RetriedAttempts : Transient(s_script[k])}) <= RETRIES
    /\ ((\A k \in 1..RETRIES : Transient(s_script[k]))
          /\ s_script[RETRIES + 1] = WireStatus(200, FALSE))
         => s_result = Returned(200, FALSE, RETRIES + 1)
    /\ (\A k \in 1..(RETRIES + 1) : Transient(s_script[k]))
         => (s_result.kind = "exception" /\ s_result.attempts = RETRIES + 1)

\* C5's case: three 503 and then a 200, which the caller gets.
C5_Witness ==
  /\ SessionDone
  /\ s_method = "GET"
  /\ \A k \in 1..3 : s_script[k] = WireStatus(503, FALSE)
  /\ s_script[4] = WireStatus(200, FALSE)
  /\ s_result.kind = "response"
  /\ s_result.status = 200
  /\ s_result.attempts = 4

\* C6 as claimed: a response is retried only if its status is in the
\* transient set; a first response with another status is the only attempt
\* and is handed to the caller; with a method outside HEAD, GET, OPTIONS no
\* response is retried.
C6_OnlyTransientRetried ==
  SessionDone =>
    /\ \A k \in RetriedAttempts :
         s_script[k].kind = "status" =>
           (Transient(s_script[k]) /\ s_method \in {"HEAD", "GET", "OPTIONS"})
    /\ (s_script[1].kind = "status" /\ ~Transient(s_script[1])) =>
         s_result = Returned(s_script[1].status, s_script[1].retry_after, 1)

\* The response asks to come back later: a Retry-After header on a 413, 429
\* or 503
AsksRetryAfter(o) ==
  o.kind = "status" /\ o.retry_after /\ o.status \in {413, 429, 503}

\* C6 amended: a response is retried only if its status is in the transient
\* set or it is a 413, 429 or 503 carrying a Retry-After header; a first
\* response of neither kind is the only attempt and is handed to the caller;
\* with a method outside HEAD, GET, OPTIONS no response is retried.
C6_OnlyTransientOrRetryAfterRetried ==
  SessionDone =>
    /\ \A k \in RetriedAttempts :
         s_script[k].kind = "status" =>
           /\ Transient(s_script[k]) \/ AsksRetryAfter(s_script[k])
           /\ s_method \in {"HEAD", "GET", "OPTIONS"}
    /\ (/\ s_script[1].kind = "status"
        /\ ~Transient(s_script[1])
        /\ ~AsksRetryAfter(s_script[1])) =>
         s_result = Returned(s_script[1].status, s_script[1].retry_after, 1)

\* C6's case: a GET answered 404 at once, and a POST answered 503, are each
\* handed to the caller after one attempt.
C6_Witness ==
  /\ SessionDone
  /\ \/ s_method = "GET" /\ s_script[1] = WireStatus(404, FALSE)
     \/ s_method = "POST" /\ s_script[1] = WireStatus(503, FALSE)
  /\ s_result.kind = "response"
  /\ s_result.status = s_script[1].status
  /\ s_result.attempts = 1

\* ------------------------------------------------------------------------
\* Properties of the files and of the batch loop
\* ------------------------------------------------------------------------
\* C11: when download_xml returns True for a record, the file named after
\* the record's setid holds exactly the body of the response, and every
\* other file of save_dir is as it was when the call began: none is created,
\* changed or deleted.
C11_SuccessWritesOnlyTargetFile ==
  (Downloaded /\ success) =>
    /\ files[Target] = resp.content
    /\ files_pre[Target] = Absent
    /\ \A s \in Ids \ {Target} : files[s] = files_pre[s]

\* C11's case: s2 has just been saved with the full body of a 200 answer
\* while s1.xml, present when the call began, still holds what it held.
C11_Witness ==
  /\ Downloaded
  /\ success
  /\ Target = "s2"
  /\ resp.status = 200
  /\ files["s2"] = resp.content
  /\ files_pre["s1"] = XmlBody
  /\ files["s1"] = XmlBody

\* The loop of download_batch is at work on batch
InBatch == pc \in {"batch_loop", "requested", "downloaded", "sleep"}

\* C12: every call of download_xml, whatever it returns, is followed by
\* exactly one sleep before the loop goes on, and a skipped record brings no
\* sleep: the document requests sent less the sleeps taken is one from the
\* request to the sleep and zero everywhere else, so no document request of a
\* run, in this batch or a later one, is sent before the sleep that follows
\* the one before it.
C12_OneSleepPerDownload ==
  /\ unslept = IF pc \in {"requested", "downloaded", "sleep"} THEN 1 ELSE 0
  /\ pc = "sleep" => rstate[i] \in {"Saved", "Failed"}

\* C12's case: the second record's request is in flight after the first
\* record's download failed, and the sleep after that failure was taken.
C12_Witness ==
  /\ pc = "requested"
  /\ i = 2
  /\ rstate[1] = "Failed"
  /\ unslept = 1

\* The states a record ends in
FinalStates == {"Skipped", "Saved", "Failed"}

\* The steps a record may take within one call of download_batch
RecordSteps ==
  {<<"Pending", "Skipped">>, <<"Pending", "Requested">>,
   <<"Requested", "Saved">>, <<"Requested", "Failed">>}

\* Where the records of batch stand: those before the loop's position have
\* ended, those after it are Pending, the one at it is Pending until the
\* loop looks at it, Requested while its GET is out, Saved or Failed after.
RecordStatesInOrder ==
  InBatch =>
    /\ Len(rstate) = Len(batch)
    /\ \A k \in 1..Len(batch) :
         /\ k < i => rstate[k] \in FinalStates
         /\ k > i => rstate[k] = "Pending"
         /\ k = i =>
              CASE pc = "batch_loop" -> rstate[k] = "Pending"
                [] pc = "requested" -> rstate[k] = "Requested"
                [] OTHER -> rstate[k] = IF success THEN "Saved" ELSE "Failed"
    /\ Cardinality({k \in 1..Len(batch) : rstate[k] = "Requested"}) <= 1

\* C13: within a call of download_batch every record goes Pending -> Skipped,
\* Pending -> Requested -> Saved or Pending -> Requested -> Failed and takes
\* no other step; records leave Pending in list order, one per step; a
\* record that left Requested is never Requested again; at most one record
\* is Requested at a time.
C13_RecordLifecycle ==
  /\ []RecordStatesInOrder
  /\ [][(InBatch /\ pc' \in {"batch_loop", "requested", "downloaded", "sleep"}) =>
          /\ \A k \in 1..Len(batch) :
               rstate'[k] # rstate[k] => <<rstate[k], rstate'[k]>> \in RecordSteps
          /\ Cardinality({k \in 1..Len(batch) : rstate'[k] # rstate[k]}) <= 1]_vars

\* C13's case: in a batch of two the first record has Failed and the second
\* one is Saved, each after being Requested in its turn.
C13_Witness ==
  /\ pc = "sleep"
  /\ Len(batch) = 2
  /\ i = 2
  /\ rstate = <<"Failed", "Saved">>

\* C15: a file that was absent when the run began and is present now holds a
\* complete response body, and a call of download_xml that returned False
\* has left no file for its record behind.
C15_FilePresenceIsSound ==
  /\ (Downloaded /\ ~success) => files[Target] = Absent
  /\ \A s \in Ids : (files[s] # Absent /\ files0[s] = Absent) => files[s] \in Bodies

\* The first call of download_batch has printed its count
FirstBatchReported == pc = "main_loop" /\ di = 1 /\ Len(reported) = 1

\* C14: the count printed by the first download_batch call of a run is the
\* number of its records that were Saved, and is the number of files present
\* after the call that were absent before it.
C14_CountIsSavedIsNewFiles ==
  FirstBatchReported =>
    /\ reported[1] = Cardinality({k \in 1..Len(batch) : rstate[k] = "Saved"})
    /\ reported[1] = Cardinality({s \in Ids : files[s] # Absent /\ files0[s] = Absent})

\* download_batch has returned: every record of the sliced list has ended
\* and the count was printed once
BatchDone ==
  /\ pc = "main_loop"
  /\ Len(rstate) = Len(batch)
  /\ \A k \in 1..Len(batch) : rstate[k] \in FinalStates
  /\ reported = <<count>>

\* C16: whatever the list, the limit and the answers of the server, a call
\* of download_batch ends: every record of the sliced list reaches Skipped,
\* Saved or Failed, and the count is printed, once and only once per call.
C16_BatchTerminates ==
  /\ [](Len(reported) <= 1)
  /\ (pc = "download_batch" \/ InBatch) ~> BatchDone

\* C16's case: a batch of two records has ended although the download of
\* its first record failed, and its count was printed.
C16_Witness ==
  /\ BatchDone
  /\ Len(batch) = 2
  /\ rstate[1] = "Failed"
  /\ rstate[2] \in {"Saved", "Failed"}

\* ------------------------------------------------------------------------
\* Properties of the session's policy
\* ------------------------------------------------------------------------
\* Arguments a caller may hand to get_retry_session
RetriesArgs == {0, RETRIES, 5}
BackoffArgs == {0, BACKOFF_FACTOR_TENTHS, 10}
ForcelistArgs == {{}, STATUS_FORCELIST, {429, 500}}

\* The policy of the claim: 3 retries, backoff factor 0.3 (in tenths), the
\* statuses 500, 502, 503, 504, the methods HEAD, GET, OPTIONS
FixedPolicy ==
  [total |-> 3, read |-> 3, connect |-> 3, backoff_factor |-> 3,
   status_forcelist |-> {500, 502, 503, 504},
   allowed_methods |-> {"HEAD", "GET", "OPTIONS"}]

\* C17: get_retry_session builds the same policy whatever arguments it is
\* given; the scraper's session carries that policy from construction on,
\* and the index request and every document request are sent through it.
C17_RetryPolicyFixed ==
  /\ \A r \in RetriesArgs : \A b \in BackoffArgs : \A f \in ForcelistArgs :
       get_retry_session(r, b, f) = FixedPolicy
  /\ session = FixedPolicy
  /\ sent_with \in {NoPolicy, FixedPolicy}
  /\ pc # "fetch_index" => sent_with = session

\* C17's case: the index was fetched and a document request is now out,
\* both sent through the scraper's one session.
C17_Witness ==
  /\ pc = "requested"
  /\ index_resp.kind = "response"
  /\ req = DocRequest(Target)
  /\ sent_with = session
  /\ session = get_retry_session(5, 10, {})

====
